---- MODULE Spec2Model ----
(***************************************************************************)
(* A model of vswhere-rs: the four-point version type (parse / display),   *)
(* the argument encoders and selection groups (args.rs, selection.rs) and  *)
(* the Config runner with its default-path discovery (lib.rs).             *)
(*                                                                         *)
(* Strings whose characters matter are sequences of one-character strings. *)
(***************************************************************************)
EXTENDS Integers, Sequences, FiniteSets, TLC

VARIABLES
    segs,       \* test vector: the segments the input string was composed of
    input,      \* the string handed to FourPointVersion's deserializer
    parsed,     \* result of visit_str(input)
    formatted,  \* Display output of the parsed version
    reparsed,   \* result of visit_str(formatted)
    vpc,        \* position of the version round trip
    sel,        \* the selection parameter group being built (Modern, Legacy or a path)
    cmd,        \* the ArgCollector: the tokens collected so far
    spc,        \* "building", "encoded", "panicked", or "idle"
    lastArg,    \* per setter of the selection: the argument of its most recent call, if any
    ret,        \* the instance the most recent setter call returned
    cfg,        \* the Config being built and run (lib.rs)
    rpc,        \* position inside Config's run: "config", "first", "pf", "second", "done"
    trace,      \* the calls made on the OS so far: known-folder lookups and spawns
    result,     \* what the run gave its caller
    mem,        \* the known-folder buffers: what the OS handed out, read and released, in order
    text,       \* a Display output handed to the buffer of VersionRange::populate_args
    json,       \* the JSON document vswhere printed
    decoded,    \* result of serde_json::from_str(json)
    got,        \* the most recent accessor call on a decoded record, and its outcome
    dpc         \* "ready", "decoded", "panicked", or "idle"

versionVars == <<segs, input, parsed, formatted, reparsed, vpc>>

selectionVars == <<sel, cmd, spc, lastArg, ret>>

runVars == <<cfg, rpc, trace, result, mem>>

bufferVars == <<text>>

decodeVars == <<json, decoded, got, dpc>>

vars == <<segs, input, parsed, formatted, reparsed, vpc, sel, cmd, spc, lastArg, ret,
          cfg, rpc, trace, result, mem, text,
          json, decoded, got, dpc>>

(***************************************************************************)
(* Bounds                                                                  *)
(***************************************************************************)
MaxSegs == 5
MaxList == 2
MaxOver == 2

(***************************************************************************)
(* Characters and integer <-> text conversion (core / std behaviour used   *)
(* by the code).                                                           *)
(***************************************************************************)
U16_MAX == 65535

Digits == <<"0", "1", "2", "3", "4", "5", "6", "7", "8", "9">>

IsDigit(c) == \E i \in 1..10 : Digits[i] = c

DigitVal(c) == (CHOOSE i \in 1..10 : Digits[i] = c) - 1

Ok(v) == [ok |-> TRUE, val |-> v]

Err(what, arg) == [ok |-> FALSE, err |-> what, arg |-> arg]

\* checked accumulation of decimal digits into a u16: -1 on a non-digit or
\* on overflow past U16_MAX (checked_mul / checked_add in from_str_radix)
RECURSIVE AccumulateDigits(_, _)
AccumulateDigits(ds, acc) ==
    IF ds = <<>> THEN acc
    ELSE IF ~IsDigit(Head(ds)) THEN -1
    ELSE LET next == acc * 10 + DigitVal(Head(ds))
         IN  IF next > U16_MAX THEN -1 ELSE AccumulateDigits(Tail(ds), next)

\* u16::from_str_radix(chunk, 10): empty is an error; one leading '+' is
\* accepted for an unsigned type, '-' is not; at least one digit is needed.
u16_from_str_radix(chunk) ==
    IF chunk = <<>> THEN -1
    ELSE LET ds == IF Head(chunk) = "+" THEN Tail(chunk) ELSE chunk
         IN  IF ds = <<>> THEN -1 ELSE AccumulateDigits(ds, 0)

\* Display for u16: decimal digits, no padding, no sign
RECURSIVE u16_fmt(_)
u16_fmt(n) ==
    IF n < 10 THEN <<Digits[n + 1]>>
    ELSE u16_fmt(n \div 10) \o <<Digits[(n % 10) + 1]>>

\* str::split('.'): always at least one (possibly empty) piece
RECURSIVE split(_)
split(s) ==
    IF \A i \in 1..Len(s) : s[i] # "."
    THEN <<s>>
    ELSE LET i == CHOOSE k \in 1..Len(s) :
                     s[k] = "." /\ \A j \in 1..(k - 1) : s[j] # "."
         IN  <<SubSeq(s, 1, i - 1)>> \o split(SubSeq(s, i + 1, Len(s)))

(***************************************************************************)
(* FourPointVersion (lib.rs)                                               *)
(***************************************************************************)
FourPointVersion_new(major, minor, revision, build) ==
    [major |-> major, minor |-> minor, revision |-> revision, build |-> build]

\* faulty variant: a segment that is no u16 is read as 0
parse_number_lenient(chunk) ==
    LET n == u16_from_str_radix(chunk)
    IN  IF n < 0 THEN Ok(0) ELSE Ok(n)

parse_number(chunk) ==
    LET n == u16_from_str_radix(chunk)
    IN  IF n < 0 THEN Err("invalid_value", chunk) ELSE Ok(n)

\* iter.chain(iter::repeat("0")): the i-th item of the chained iterator
version_getter(iter, i) == IF i <= Len(iter) THEN iter[i] ELSE <<"0">>

visit_str(v) ==
    LET iter == split(v)
        len  == Len(iter)
    IN  IF len < 1 \/ len > 4
        THEN Err("invalid_length", len)
        ELSE LET n1 == parse_number(version_getter(iter, 1))
                 n2 == parse_number(version_getter(iter, 2))
                 n3 == parse_number(version_getter(iter, 3))
                 n4 == parse_number(version_getter(iter, 4))
             IN  IF ~n1.ok THEN n1
                 ELSE IF ~n2.ok THEN n2
                 ELSE IF ~n3.ok THEN n3
                 ELSE IF ~n4.ok THEN n4
                 ELSE Ok(FourPointVersion_new(n1.val, n2.val, n3.val, n4.val))

\* faulty variant: the build field is left out
FourPointVersion_fmt_three(self) ==
    u16_fmt(self.major) \o <<".">> \o u16_fmt(self.minor) \o <<".">>
        \o u16_fmt(self.revision)

FourPointVersion_fmt(self) ==
    u16_fmt(self.major) \o <<".">> \o u16_fmt(self.minor) \o <<".">>
        \o u16_fmt(self.revision) \o <<".">> \o u16_fmt(self.build)

(***************************************************************************)
(* Version strings under test.  Each segment case carries the hand-written *)
(* expectation: whether it denotes a u16, its value, its canonical text.   *)
(***************************************************************************)
Seg(t, valid, val, canon) ==
    [text |-> t, valid |-> valid, val |-> val, canon |-> canon]

CoreSegs ==
    { Seg(<<"0">>, TRUE, 0, <<"0">>),
      Seg(<<"1", "6">>, TRUE, 16, <<"1", "6">>),
      Seg(<<"6", "5", "5", "3", "5">>, TRUE, 65535, <<"6", "5", "5", "3", "5">>),
      Seg(<<"6", "5", "5", "3", "6">>, FALSE, 0, <<>>),
      Seg(<<"a">>, FALSE, 0, <<>>),
      Seg(<<>>, FALSE, 0, <<>>) }

SegMinus1 == Seg(<<"-", "1">>, FALSE, 0, <<>>)
SegPlus7 == Seg(<<"+", "7">>, TRUE, 7, <<"7">>)
Seg007 == Seg(<<"0", "0", "7">>, TRUE, 7, <<"7">>)
Seg1 == Seg(<<"1">>, TRUE, 1, <<"1">>)
Seg0 == Seg(<<"0">>, TRUE, 0, <<"0">>)
SegA == Seg(<<"a">>, FALSE, 0, <<>>)
Seg9s == Seg(<<"9", "9", "9", "9", "9", "9">>, FALSE, 0, <<>>)
Seg1p5 == Seg(<<"1", "x", "5">>, FALSE, 0, <<>>)

Seg2 == Seg(<<"2">>, TRUE, 2, <<"2">>)
Seg3 == Seg(<<"3">>, TRUE, 3, <<"3">>)
Seg4 == Seg(<<"4">>, TRUE, 4, <<"4">>)
Seg5 == Seg(<<"5">>, TRUE, 5, <<"5">>)

ExtraInputs ==
    { <<SegMinus1, Seg0, Seg0, Seg0>>,
      <<Seg1, Seg2, Seg3, Seg4, Seg5>>,
      <<Seg1, Seg2, Seg3, Seg4>>,
      <<Seg1, SegA>>,
      <<SegPlus7, Seg007>>,
      <<Seg007, Seg1, SegPlus7, Seg0>>,
      <<Seg9s>>,
      <<Seg1, Seg1p5, Seg0>>,
      <<Seg(<<"+">>, FALSE, 0, <<>>), Seg1>>,
      <<Seg(<<"-">>, FALSE, 0, <<>>)>>,
      <<Seg1, Seg(<<"+", "-", "1">>, FALSE, 0, <<>>)>> }

SegLists ==
    UNION { [1..n -> CoreSegs] : n \in 1..MaxSegs } \cup ExtraInputs

\* the caller's string: the segment texts joined by '.'
RECURSIVE JoinDots(_)
JoinDots(ss) ==
    IF Len(ss) = 1 THEN ss[1].text
    ELSE ss[1].text \o <<".">> \o JoinDots(Tail(ss))

None == [ok |-> FALSE, err |-> "none", arg |-> 0]

(***************************************************************************)
(* Version round trip: deserialize, display, deserialize again             *)
(***************************************************************************)
InitVersion ==
    /\ segs \in SegLists
    /\ input = JoinDots(segs)
    /\ parsed = None
    /\ formatted = <<>>
    /\ reparsed = None
    /\ vpc = "input"
    /\ sel = [kind |-> "none"]
    /\ cmd = <<>>
    /\ spc = "idle"
    /\ lastArg = <<>>
    /\ ret = [kind |-> "none"]
    /\ cfg = [kind |-> "none"]
    /\ rpc = "idle"
    /\ trace = <<>>
    /\ result = [kind |-> "none"]
    /\ mem = <<>>
    /\ json = [t |-> "absent"]
    /\ decoded = None
    /\ got = [kind |-> "none"]
    /\ dpc = "idle"
    /\ text = <<>>

Deserialize ==
    /\ vpc = "input"
    /\ parsed' = visit_str(input)
    /\ vpc' = "parsed"
    /\ UNCHANGED <<segs, input, formatted, reparsed>>
    /\ UNCHANGED <<selectionVars, runVars, bufferVars, decodeVars>>

Display ==
    /\ vpc = "parsed"
    /\ parsed.ok
    /\ formatted' = FourPointVersion_fmt(parsed.val)
    /\ vpc' = "formatted"
    /\ UNCHANGED <<segs, input, parsed, reparsed>>
    /\ UNCHANGED <<selectionVars, runVars, bufferVars, decodeVars>>

DeserializeFormatted ==
    /\ vpc = "formatted"
    /\ reparsed' = visit_str(formatted)
    /\ vpc' = "reparsed"
    /\ UNCHANGED <<segs, input, parsed, formatted>>
    /\ UNCHANGED <<selectionVars, runVars, bufferVars, decodeVars>>

NextVersion == Deserialize \/ Display \/ DeserializeFormatted

SpecVersion == InitVersion /\ [][NextVersion]_vars

(***************************************************************************)
(* Argument tokens (args.rs, selection.rs, lib.rs)                         *)
(***************************************************************************)
T_all == <<"-", "a", "l", "l">>
T_prerelease == <<"-", "p", "r", "e", "r", "e", "l", "e", "a", "s", "e">>
T_products == <<"-", "p", "r", "o", "d", "u", "c", "t", "s">>
T_requires == <<"-", "r", "e", "q", "u", "i", "r", "e", "s">>
T_requiresAny == <<"-", "r", "e", "q", "u", "i", "r", "e", "s", "A", "n", "y">>
T_version == <<"-", "v", "e", "r", "s", "i", "o", "n">>
T_legacy == <<"-", "l", "e", "g", "a", "c", "y">>
T_path == <<"-", "p", "a", "t", "h">>

\* values the caller passes to the setters
Wildcard == <<"*">>
ProductIds == { Wildcard, <<"C", "o", "m", "m", "u", "n", "i", "t", "y">> }
ComponentIds == { <<"V", "C", ".", "T", "o", "o", "l", "s">>, <<"M", "S", "B", "u", "i", "l", "d">> }
Paths == { <<"C", ":", "\\", "V", "S">>, <<"D", ":", "\\", "v", "s", " ", "2", "0", "1", "9">> }

Lists(S) == UNION { [1..n -> S] : n \in 0..MaxList }

V15 == FourPointVersion_new(15, 0, 0, 0)
V16 == FourPointVersion_new(16, 6, 30128, 74)
VMax == FourPointVersion_new(U16_MAX, U16_MAX, U16_MAX, U16_MAX)
RangeVersions == { V15, V16, VMax }

NoBound == [some |-> FALSE]
Some(v) == [some |-> TRUE, v |-> v]
Bounds == { NoBound } \cup { Some(v) : v \in RangeVersions }

(***************************************************************************)
(* ArgCollector and the encoders of args.rs.  Each populate_args takes the *)
(* encoder and the collector and yields the collector afterwards.          *)
(***************************************************************************)
arg(c, a) == Append(c, a)

args(c, as) == c \o as

All_new == FALSE
Prerelease_new == FALSE
Products_new == <<>>
Requires_new == <<>>
RequiresAny_new == FALSE
VersionRange_new == [lower |-> NoBound, upper |-> NoBound]

All_populate_args(self, c) == IF self THEN arg(c, T_all) ELSE c

Prerelease_populate_args(self, c) == IF self THEN arg(c, T_prerelease) ELSE c

\* faulty variant: an empty allowlist is sent as the wildcard
Products_populate_args_wildcard(self, c) ==
    IF self # <<>> THEN args(arg(c, T_products), self)
    ELSE args(arg(c, T_products), <<Wildcard>>)

Products_populate_args(self, c) ==
    IF self # <<>> THEN args(arg(c, T_products), self) ELSE c

Requires_populate_args(self, c) ==
    IF self # <<>> THEN args(arg(c, T_requires), self) ELSE c

RequiresAny_populate_args(self, c) == IF self THEN arg(c, T_requiresAny) ELSE c

\* Display for the Version of a range bound: the four-point form
Version_fmt(v) == FourPointVersion_fmt(v)

\* faulty variant: a lone lower bound loses its trailing comma
VersionRange_fmt_nocomma(self) ==
    CASE self.lower.some /\ self.upper.some ->
            Version_fmt(self.lower.v) \o <<",">> \o Version_fmt(self.upper.v)
      [] self.lower.some /\ ~self.upper.some -> Version_fmt(self.lower.v)
      [] ~self.lower.some /\ self.upper.some -> <<",">> \o Version_fmt(self.upper.v)
      [] OTHER -> <<>>

VersionRange_fmt(self) ==
    CASE self.lower.some /\ self.upper.some ->
            Version_fmt(self.lower.v) \o <<",">> \o Version_fmt(self.upper.v)
      [] self.lower.some /\ ~self.upper.some -> Version_fmt(self.lower.v) \o <<",">>
      [] ~self.lower.some /\ self.upper.some -> <<",">> \o Version_fmt(self.upper.v)
      [] OTHER -> <<>>

BUFFER_LEN == 47

NUL == "NUL"

\* write!(&mut buffer[..], ..) into the zeroed buffer: io::Write for a byte
\* slice stores what fits; write_all fails when bytes remain.
\* faulty variant: a write that does not fit goes unnoticed
buffer_write_ok_always(t) == TRUE

buffer_write_ok(t) == Len(t) <= BUFFER_LEN

buffer_after_write(t) ==
    [i \in 1..BUFFER_LEN |-> IF i <= Len(t) THEN t[i] ELSE NUL]

\* buffer.iter().position(|e| e == 0).map_or(buffer.len(), ..)
buffer_last(buffer) ==
    IF \E i \in 1..BUFFER_LEN : buffer[i] = NUL
    THEN (CHOOSE i \in 1..BUFFER_LEN :
              buffer[i] = NUL /\ \A j \in 1..(i - 1) : buffer[j] # NUL) - 1
    ELSE BUFFER_LEN

\* .unwrap() on the write: a panic when the text does not fit
VersionRange_populate_args_panics(self) == ~buffer_write_ok(VersionRange_fmt(self))

\* the rest of populate_args once the write has succeeded
populate_from_buffer(t, c) ==
    LET buffer == buffer_after_write(t)
        last   == buffer_last(buffer)
    IN  IF last > 0
        THEN args(c, <<T_version, SubSeq(buffer, 1, last)>>)
        ELSE c

VersionRange_populate_args(self, c) == populate_from_buffer(VersionRange_fmt(self), c)

(***************************************************************************)
(* Selection parameter groups (selection.rs)                               *)
(***************************************************************************)
Modern_new ==
    [kind |-> "Modern", all |-> All_new, prerelease |-> Prerelease_new,
     products |-> Products_new, requires |-> Requires_new,
     requires_any |-> RequiresAny_new, version |-> VersionRange_new]

Legacy_new ==
    [kind |-> "Legacy", all |-> All_new, prerelease |-> Prerelease_new,
     version |-> VersionRange_new]

PathSelection(p) == [kind |-> "Path", path |-> p]

Modern_populate_args(self, c) ==
    LET c1 == All_populate_args(self.all, c)
        c2 == Prerelease_populate_args(self.prerelease, c1)
        c3 == RequiresAny_populate_args(self.requires_any, c2)
        c4 == Products_populate_args(self.products, c3)
        c5 == Requires_populate_args(self.requires, c4)
    IN  VersionRange_populate_args(self.version, c5)

\* faulty variant: the legacy marker is only sent along with another token
Legacy_populate_args_unmarked(self, c) ==
    LET c0 == IF self.all \/ self.prerelease THEN arg(c, T_legacy) ELSE c
        c1 == All_populate_args(self.all, c0)
        c2 == Prerelease_populate_args(self.prerelease, c1)
    IN  VersionRange_populate_args(self.version, c2)

Legacy_populate_args(self, c) ==
    LET c0 == arg(c, T_legacy)
        c1 == All_populate_args(self.all, c0)
        c2 == Prerelease_populate_args(self.prerelease, c1)
    IN  VersionRange_populate_args(self.version, c2)

\* faulty variant: the path is sent without its marker
Path_populate_args_bare(self, c) == arg(c, self.path)

Path_populate_args(self, c) == arg(arg(c, T_path), self.path)

populate_args(self, c) ==
    CASE self.kind = "Modern" -> Modern_populate_args(self, c)
      [] self.kind = "Legacy" -> Legacy_populate_args(self, c)
      [] self.kind = "Path" -> Path_populate_args(self, c)

populate_args_panics(self) ==
    self.kind \in {"Modern", "Legacy"} /\ VersionRange_populate_args_panics(self.version)

\* the setters of each selection group, and the record of their calls
Setters(kind) ==
    CASE kind = "Modern" -> {"all", "prerelease", "products", "requires", "requires_any", "version"}
      [] kind = "Legacy" -> {"all", "prerelease", "version"}
      [] OTHER -> {}

InitSelection ==
    /\ sel \in {Modern_new, Legacy_new} \cup { PathSelection(p) : p \in Paths }
    /\ cmd = <<>>
    /\ spc = "building"
    /\ lastArg = [s \in Setters(sel.kind) |-> [set |-> FALSE]]
    /\ ret = [kind |-> "none"]
    /\ segs = <<>>
    /\ input = <<>>
    /\ parsed = None
    /\ formatted = <<>>
    /\ reparsed = None
    /\ vpc = "idle"
    /\ cfg = [kind |-> "none"]
    /\ rpc = "idle"
    /\ trace = <<>>
    /\ result = [kind |-> "none"]
    /\ mem = <<>>
    /\ json = [t |-> "absent"]
    /\ decoded = None
    /\ got = [kind |-> "none"]
    /\ dpc = "idle"
    /\ text = <<>>

Modern_all ==
    \E value \in BOOLEAN :
        /\ spc = "building" /\ sel.kind = "Modern"
        /\ sel' = [sel EXCEPT !.all = value]
        /\ lastArg' = [lastArg EXCEPT !.all = [set |-> TRUE, arg |-> value]]
        /\ ret' = sel'
        /\ UNCHANGED <<cmd, spc>>
        /\ UNCHANGED <<versionVars, runVars, bufferVars, decodeVars>>

\* faulty variant: the prerelease setter also overwrites `all`
Modern_prerelease_clobbers ==
    \E value \in BOOLEAN :
        /\ spc = "building" /\ sel.kind = "Modern"
        /\ sel' = [sel EXCEPT !.prerelease = value, !.all = value]
        /\ lastArg' = [lastArg EXCEPT !.prerelease = [set |-> TRUE, arg |-> value]]
        /\ ret' = sel'
        /\ UNCHANGED <<cmd, spc>>
        /\ UNCHANGED <<versionVars, runVars, bufferVars, decodeVars>>

Modern_prerelease ==
    \E value \in BOOLEAN :
        /\ spc = "building" /\ sel.kind = "Modern"
        /\ sel' = [sel EXCEPT !.prerelease = value]
        /\ lastArg' = [lastArg EXCEPT !.prerelease = [set |-> TRUE, arg |-> value]]
        /\ ret' = sel'
        /\ UNCHANGED <<cmd, spc>>
        /\ UNCHANGED <<versionVars, runVars, bufferVars, decodeVars>>

Modern_products ==
    \E value \in Lists(ProductIds) :
        /\ spc = "building" /\ sel.kind = "Modern"
        /\ sel' = [sel EXCEPT !.products = value]
        /\ lastArg' = [lastArg EXCEPT !.products = [set |-> TRUE, arg |-> value]]
        /\ ret' = sel'
        /\ UNCHANGED <<cmd, spc>>
        /\ UNCHANGED <<versionVars, runVars, bufferVars, decodeVars>>

Modern_requires ==
    \E value \in Lists(ComponentIds) :
        /\ spc = "building" /\ sel.kind = "Modern"
        /\ sel' = [sel EXCEPT !.requires = value]
        /\ lastArg' = [lastArg EXCEPT !.requires = [set |-> TRUE, arg |-> value]]
        /\ ret' = sel'
        /\ UNCHANGED <<cmd, spc>>
        /\ UNCHANGED <<versionVars, runVars, bufferVars, decodeVars>>

Modern_requires_any ==
    \E value \in BOOLEAN :
        /\ spc = "building" /\ sel.kind = "Modern"
        /\ sel' = [sel EXCEPT !.requires_any = value]
        /\ lastArg' = [lastArg EXCEPT !.requires_any = [set |-> TRUE, arg |-> value]]
        /\ ret' = sel'
        /\ UNCHANGED <<cmd, spc>>
        /\ UNCHANGED <<versionVars, runVars, bufferVars, decodeVars>>

Modern_version ==
    \E lower \in Bounds, upper \in Bounds :
        /\ spc = "building" /\ sel.kind = "Modern"
        /\ sel' = [sel EXCEPT !.version = [lower |-> lower, upper |-> upper]]
        /\ lastArg' = [lastArg EXCEPT !.version = [set |-> TRUE, arg |-> [lower |-> lower, upper |-> upper]]]
        /\ ret' = sel'
        /\ UNCHANGED <<cmd, spc>>
        /\ UNCHANGED <<versionVars, runVars, bufferVars, decodeVars>>

Legacy_all ==
    \E value \in BOOLEAN :
        /\ spc = "building" /\ sel.kind = "Legacy"
        /\ sel' = [sel EXCEPT !.all = value]
        /\ lastArg' = [lastArg EXCEPT !.all = [set |-> TRUE, arg |-> value]]
        /\ ret' = sel'
        /\ UNCHANGED <<cmd, spc>>
        /\ UNCHANGED <<versionVars, runVars, bufferVars, decodeVars>>

Legacy_prerelease ==
    \E value \in BOOLEAN :
        /\ spc = "building" /\ sel.kind = "Legacy"
        /\ sel' = [sel EXCEPT !.prerelease = value]
        /\ lastArg' = [lastArg EXCEPT !.prerelease = [set |-> TRUE, arg |-> value]]
        /\ ret' = sel'
        /\ UNCHANGED <<cmd, spc>>
        /\ UNCHANGED <<versionVars, runVars, bufferVars, decodeVars>>

Legacy_version ==
    \E lower \in Bounds, upper \in Bounds :
        /\ spc = "building" /\ sel.kind = "Legacy"
        /\ sel' = [sel EXCEPT !.version = [lower |-> lower, upper |-> upper]]
        /\ lastArg' = [lastArg EXCEPT !.version = [set |-> TRUE, arg |-> [lower |-> lower, upper |-> upper]]]
        /\ ret' = sel'
        /\ UNCHANGED <<cmd, spc>>
        /\ UNCHANGED <<versionVars, runVars, bufferVars, decodeVars>>

\* the caller hands the selection a fresh collector
PopulateArgs ==
    /\ spc = "building"
    /\ IF populate_args_panics(sel)
       THEN /\ spc' = "panicked"
            /\ cmd' = cmd
       ELSE /\ spc' = "encoded"
            /\ cmd' = populate_args(sel, cmd)
    /\ UNCHANGED <<sel, lastArg, ret>>
    /\ UNCHANGED <<versionVars, runVars, bufferVars, decodeVars>>

NextSelection ==
    \/ Modern_all
    \/ Modern_prerelease
    \/ Modern_products
    \/ Modern_requires
    \/ Modern_requires_any
    \/ Modern_version
    \/ Legacy_all
    \/ Legacy_prerelease
    \/ Legacy_version
    \/ PopulateArgs

SpecSelection == InitSelection /\ [][NextSelection]_vars

(***************************************************************************)
(* The buffer of VersionRange::populate_args on its own: the Display       *)
(* output of every range, and texts around and beyond the capacity.        *)
(***************************************************************************)
FillChars == {"9", ".", ","}

FillTexts ==
    { [i \in 1..n |-> ch] : n \in 0..(BUFFER_LEN + MaxOver), ch \in FillChars }

InitBuffer ==
    /\ \/ \E lower \in Bounds, upper \in Bounds :
              /\ sel = [kind |-> "Range", version |-> [lower |-> lower, upper |-> upper]]
              /\ text = VersionRange_fmt(sel.version)
       \/ /\ sel = [kind |-> "Text"]
          /\ text \in FillTexts
    /\ cmd = <<>>
    /\ spc = "building"
    /\ lastArg = <<>>
    /\ ret = [kind |-> "none"]
    /\ segs = <<>>
    /\ input = <<>>
    /\ parsed = None
    /\ formatted = <<>>
    /\ reparsed = None
    /\ vpc = "idle"
    /\ cfg = [kind |-> "none"]
    /\ rpc = "idle"
    /\ trace = <<>>
    /\ result = [kind |-> "none"]
    /\ mem = <<>>
    /\ json = [t |-> "absent"]
    /\ decoded = None
    /\ got = [kind |-> "none"]
    /\ dpc = "idle"

\* write!(&mut buffer[..], ..).unwrap() and what follows it
WriteVersionToken ==
    /\ spc = "building"
    /\ IF ~buffer_write_ok(text)
       THEN /\ spc' = "panicked"
            /\ cmd' = cmd
       ELSE /\ spc' = "encoded"
            /\ cmd' = populate_from_buffer(text, cmd)
    /\ UNCHANGED <<sel, text, lastArg, ret>>
    /\ UNCHANGED <<versionVars, runVars, decodeVars>>

NextBuffer == WriteVersionToken

SpecBuffer == InitBuffer /\ [][NextBuffer]_vars

(***************************************************************************)
(* Config (lib.rs): the builder, the argv of an invocation, the run at a   *)
(* given path and the run at the default paths.                            *)
(***************************************************************************)
T_star == <<"*">>
T_latest == <<"-", "l", "a", "t", "e", "s", "t">>
T_format == <<"-", "f", "o", "r", "m", "a", "t">>
T_json == <<"j", "s", "o", "n">>
T_utf8 == <<"-", "u", "t", "f", "8">>

VZero == FourPointVersion_new(0, 0, 0, 0)
VersionRanges == { [start |-> V15, end |-> V16], [start |-> VZero, end |-> VMax] }

Config_new ==
    [prerelease |-> FALSE, products |-> <<>>, requires |-> <<>>,
     requires_any |-> FALSE, version |-> NoBound, latest |-> FALSE]

\* the arguments run_custom_path gives the Command before it is run
run_custom_path_argv(self) ==
    LET a1 == IF self.prerelease THEN <<T_prerelease>> ELSE <<>>
        a2 == a1 \o <<T_products>>
        a3 == IF self.products = <<>> THEN a2 \o <<T_star>> ELSE a2 \o self.products
        a4 == IF self.requires # <<>> THEN (a3 \o <<T_requires>>) \o self.requires ELSE a3
        a5 == IF self.requires_any THEN a4 \o <<T_requiresAny>> ELSE a4
        a6 == IF self.version.some
              THEN a5 \o <<T_version,
                           <<"[">> \o FourPointVersion_fmt(self.version.v.start) \o <<",">>
                               \o FourPointVersion_fmt(self.version.v.end) \o <<")">> >>
              ELSE a5
        a7 == IF self.latest THEN a6 \o <<T_latest>> ELSE a6
    IN  a7 \o <<T_format, T_json, T_utf8>>

(***************************************************************************)
(* What the operating system may answer.                                   *)
(***************************************************************************)
ErrorKinds == {"NotFound", "PermissionDenied", "Other"}

ExitCodes == {0, 1}

StdoutBodies == {"json_array", "invalid_utf8", "invalid_json"}

io_Error(kind, op, at) == [kind |-> kind, op |-> op, at |-> at]

\* SHGetKnownFolderPath(id): S_OK with the folder's path in a buffer of the
\* OS, or a failure reported through io::Error::last_os_error(); on a failure
\* the OS may or may not have stored a buffer in the out-pointer
KnownFolderOutcomes(id) ==
    { [ok |-> TRUE, path |-> id, buffer |-> TRUE] }
        \cup { [ok |-> FALSE, error |-> io_Error(k, "get_known_folder_path", id), buffer |-> b] :
                   k \in ErrorKinds, b \in BOOLEAN }

\* faulty variant: the buffer is released in the S_OK branch only
get_known_folder_path_mem_leaky(id, o) ==
    (IF o.buffer THEN <<[op |-> "alloc", buf |-> id]>> ELSE <<>>)
        \o (IF o.ok THEN <<[op |-> "read", buf |-> id], [op |-> "free", buf |-> id]>> ELSE <<>>)

\* what one call of get_known_folder_path does with the out-pointer: the OS
\* fills it, the S_OK branch reads the wide string through it, and dropping
\* `path` at the end of the block hands it to CoTaskMemFree, null or not
get_known_folder_path_mem(id, o) ==
    (IF o.buffer THEN <<[op |-> "alloc", buf |-> id]>> ELSE <<>>)
        \o (IF o.ok THEN <<[op |-> "read", buf |-> id]>> ELSE <<>>)
        \o <<[op |-> "free", buf |-> IF o.buffer THEN id ELSE "null"]>>

\* Command::output(): the spawn fails, or the child runs to its end
OutputOutcomes(program) ==
    { [ok |-> FALSE, error |-> io_Error(k, "spawn", program.base)] : k \in ErrorKinds }
        \cup { [ok |-> TRUE, status |-> c, stdout |-> [by |-> program.base, body |-> b]] :
                   c \in ExitCodes, b \in StdoutBodies }

join(p, rel) == [base |-> p, rel |-> rel]

ChocolateyRel == "chocolatey\\bin\\vswhere.exe"
InstallerRel == "Microsoft Visual Studio\\Installer\\vswhere.exe"
CustomPaths == { join("custom", "vswhere.exe") }

RunOk(records) == [kind |-> "Ok", records |-> records]
RunErr(e) == [kind |-> "Err", error |-> e]
RunPanic(msg) == [kind |-> "Panic", msg |-> msg]

\* serde_json::from_str of a well-formed payload
from_str(stdout) == [decoded_from |-> stdout]

\* the closure mapped over the Output of a spawned child
map_output(output) ==
    IF output.status # 0 THEN RunPanic("assertion failed: output.status.success()")
    ELSE IF output.stdout.body = "invalid_utf8" THEN RunPanic("vswhere returned invalid UTF-8")
    ELSE IF output.stdout.body = "invalid_json" THEN RunPanic("vswhere returned invalid JSON")
    ELSE RunOk(from_str(output.stdout))

run_custom_path(self, path, outcome) ==
    IF outcome.ok THEN map_output(outcome) ELSE RunErr(outcome.error)

\* faulty variant: every failure of the first candidate falls through
is_not_found_any(e) == TRUE

\* e.kind() == ErrorKind::NotFound, the test of the or_else closure
is_not_found(e) == e.kind = "NotFound"

\* faulty variant: the error is replaced by a not-found error on its way out
propagate_as_not_found(e) == RunErr([e EXCEPT !.kind = "NotFound"])

\* an error handed on to the caller: `?`, Err(e), and_then
propagate(e) == RunErr(e)

ResolveEvent(id, o) == [op |-> "get_known_folder_path", id |-> id, outcome |-> o]

SpawnEvent(program, argv, o) ==
    [op |-> "spawn", id |-> program.base, program |-> program, argv |-> argv, outcome |-> o]

LastResolved == trace[Len(trace)].outcome.path

InitRun ==
    /\ cfg = Config_new
    /\ rpc = "config"
    /\ trace = <<>>
    /\ result = [kind |-> "none"]
    /\ mem = <<>>
    /\ json = [t |-> "absent"]
    /\ decoded = None
    /\ got = [kind |-> "none"]
    /\ dpc = "idle"
    /\ text = <<>>
    /\ segs = <<>>
    /\ input = <<>>
    /\ parsed = None
    /\ formatted = <<>>
    /\ reparsed = None
    /\ vpc = "idle"
    /\ sel = [kind |-> "none"]
    /\ cmd = <<>>
    /\ spc = "idle"
    /\ lastArg = <<>>
    /\ ret = [kind |-> "none"]

find_prerelease_versions ==
    \E prerelease \in BOOLEAN :
        /\ rpc = "config"
        /\ cfg' = [cfg EXCEPT !.prerelease = prerelease]
        /\ UNCHANGED <<rpc, trace, result, mem, versionVars, selectionVars, bufferVars, decodeVars>>

whitelist_product_id ==
    \E product_id \in ProductIds :
        /\ rpc = "config"
        /\ Len(cfg.products) < MaxList
        /\ cfg' = [cfg EXCEPT !.products = Append(@, product_id)]
        /\ UNCHANGED <<rpc, trace, result, mem, versionVars, selectionVars, bufferVars, decodeVars>>

whitelist_component_id ==
    \E component_id \in ComponentIds :
        /\ rpc = "config"
        /\ Len(cfg.requires) < MaxList
        /\ cfg' = [cfg EXCEPT !.requires = Append(@, component_id)]
        /\ UNCHANGED <<rpc, trace, result, mem, versionVars, selectionVars, bufferVars, decodeVars>>

require_any_component ==
    \E require_any \in BOOLEAN :
        /\ rpc = "config"
        /\ cfg' = [cfg EXCEPT !.requires_any = require_any]
        /\ UNCHANGED <<rpc, trace, result, mem, versionVars, selectionVars, bufferVars, decodeVars>>

version_number_range ==
    \E range \in VersionRanges :
        /\ rpc = "config"
        /\ cfg' = [cfg EXCEPT !.version = Some(range)]
        /\ UNCHANGED <<rpc, trace, result, mem, versionVars, selectionVars, bufferVars, decodeVars>>

only_latest_versions ==
    \E latest \in BOOLEAN :
        /\ rpc = "config"
        /\ cfg' = [cfg EXCEPT !.latest = latest]
        /\ UNCHANGED <<rpc, trace, result, mem, versionVars, selectionVars, bufferVars, decodeVars>>

\* run_custom_path called by the user
run_custom_path_call ==
    \E path \in CustomPaths :
        \E o \in OutputOutcomes(path) :
            /\ rpc = "config"
            /\ trace' = Append(trace, SpawnEvent(path, run_custom_path_argv(cfg), o))
            /\ result' = run_custom_path(cfg, path, o)
            /\ rpc' = "done"
            /\ UNCHANGED <<cfg, mem, versionVars, selectionVars, bufferVars, decodeVars>>

\* run_default_path, up to the first candidate's path:
\* get_known_folder_path(&FOLDERID_ProgramData).map(join)?
run_default_path_pd ==
    \E o \in KnownFolderOutcomes("ProgramData") :
        /\ rpc = "config"
        /\ trace' = Append(trace, ResolveEvent("ProgramData", o))
        /\ mem' = mem \o get_known_folder_path_mem("ProgramData", o)
        /\ IF o.ok
           THEN rpc' = "first" /\ UNCHANGED result
           ELSE rpc' = "done" /\ result' = propagate(o.error)
        /\ UNCHANGED <<cfg, versionVars, selectionVars, bufferVars, decodeVars>>

\* self.run_custom_path(pd) and the test of the or_else closure
run_default_path_first ==
    /\ rpc = "first"
    /\ LET pd == join(LastResolved, ChocolateyRel)
       IN  \E o \in OutputOutcomes(pd) :
               LET r == run_custom_path(cfg, pd, o)
               IN  /\ trace' = Append(trace, SpawnEvent(pd, run_custom_path_argv(cfg), o))
                   /\ IF r.kind = "Err"
                      THEN IF is_not_found(r.error)
                           THEN rpc' = "pf" /\ UNCHANGED result
                           ELSE rpc' = "done" /\ result' = propagate(r.error)
                      ELSE rpc' = "done" /\ result' = r
                   /\ UNCHANGED <<cfg, mem, versionVars, selectionVars, bufferVars, decodeVars>>

\* inside or_else: get_known_folder_path(&FOLDERID_ProgramFilesX86).map(join)
run_default_path_pf ==
    \E o \in KnownFolderOutcomes("ProgramFilesX86") :
        /\ rpc = "pf"
        /\ trace' = Append(trace, ResolveEvent("ProgramFilesX86", o))
        /\ mem' = mem \o get_known_folder_path_mem("ProgramFilesX86", o)
        /\ IF o.ok
           THEN rpc' = "second" /\ UNCHANGED result
           ELSE rpc' = "done" /\ result' = propagate(o.error)
        /\ UNCHANGED <<cfg, versionVars, selectionVars, bufferVars, decodeVars>>

\* .and_then(|p| self.run_custom_path(p))
run_default_path_second ==
    /\ rpc = "second"
    /\ LET p == join(LastResolved, InstallerRel)
       IN  \E o \in OutputOutcomes(p) :
               /\ trace' = Append(trace, SpawnEvent(p, run_custom_path_argv(cfg), o))
               /\ result' = run_custom_path(cfg, p, o)
               /\ rpc' = "done"
               /\ UNCHANGED <<cfg, mem, versionVars, selectionVars, bufferVars, decodeVars>>

NextRun ==
    \/ find_prerelease_versions
    \/ whitelist_product_id
    \/ whitelist_component_id
    \/ require_any_component
    \/ version_number_range
    \/ only_latest_versions
    \/ run_custom_path_call
    \/ run_default_path_pd
    \/ run_default_path_first
    \/ run_default_path_pf
    \/ run_default_path_second

SpecRun == InitRun /\ [][NextRun]_vars

(***************************************************************************)
(* Decoding vswhere's JSON output (lib.rs): serde's derived Deserialize    *)
(* for InstallInfo, InstallCatalog and InstallProperties, and the read     *)
(* accessors of the decoded records.                                       *)
(***************************************************************************)
\* JSON values as serde_json hands them to a Deserialize implementation
JNull == [t |-> "null"]

JBool(b) == [t |-> "bool", b |-> b]

JStr(s) == [t |-> "str", s |-> s]

JObject(m) == [t |-> "object", m |-> m]

JArray(items) == [t |-> "array", items |-> items]

\* what a struct's field sees when its key is not in the object
Absent == [t |-> "absent"]

member(v, key) == IF key \in DOMAIN v.m THEN v.m[key] ELSE Absent

\* str::to_lowercase
to_lowercase(s) ==
    LET upper == <<"A", "B", "C", "D", "E", "F", "G", "H", "I", "J", "K", "L", "M",
                   "N", "O", "P", "Q", "R", "S", "T", "U", "V", "W", "X", "Y", "Z">>
        lower == <<"a", "b", "c", "d", "e", "f", "g", "h", "i", "j", "k", "l", "m",
                   "n", "o", "p", "q", "r", "s", "t", "u", "v", "w", "x", "y", "z">>
        char_to_lowercase(c) ==
            IF \E i \in DOMAIN upper : upper[i] = c
            THEN lower[CHOOSE i \in DOMAIN upper : upper[i] = c]
            ELSE c
    IN  [i \in 1..Len(s) |-> char_to_lowercase(s[i])]

\* str::trim: the text between the first and the last character that is no
\* white space
trim(s) ==
    LET keep == { i \in 1..Len(s) : s[i] \notin {" ", "\t", "\n", "\r"} }
        first == CHOOSE i \in keep : \A j \in keep : i <= j
        last == CHOOSE i \in keep : \A j \in keep : j <= i
    IN  IF keep = {} THEN <<>> ELSE SubSeq(s, first, last)

\* UppercaseBoolVisitor::visit_str
UppercaseBoolVisitor_visit_str(v) ==
    LET lower == to_lowercase(v)
        lower_trim == trim(lower)
    IN  IF lower_trim = <<"t", "r", "u", "e">>
        THEN Ok(TRUE)
        ELSE IF lower_trim = <<"f", "a", "l", "s", "e">>
             THEN Ok(FALSE)
             ELSE Err("invalid value", v)

\* the failure serde reports for a value of the wrong JSON type, or for a
\* key that is not there
type_error(ty, v) == Err(IF v = Absent THEN "missing field" ELSE "invalid type", ty)

\* deserialize_uppercase_bool: deserializer.deserialize_str(visitor), and the
\* visitor implements visit_str only
deserialize_uppercase_bool(v) ==
    IF v.t = "str" THEN UppercaseBoolVisitor_visit_str(v.s) ELSE type_error("uppercase_bool", v)

\* the texts the url, chrono and semver crates accept, among those the
\* output is decoded from here
WellFormed(ty) ==
    CASE ty = "Url" -> { <<"h", "t", "t", "p", "s", ":", "/", "/", "a", "k", "a", ".", "m", "s", "/", "v", "s">>, <<"h", "t", "t", "p", "s", ":", "/", "/", "g", "o", ".", "m", "s", "/", "f", "?", "L", "=", "6", "#", "1">> }
      [] ty = "DateTime" -> { <<"2", "0", "1", "9", "-", "1", "1", "-", "2", "4", "T", "1", "8", ":", "4", "3", ":", "5", "2", "Z">> }
      [] ty = "Version" -> { <<"1", "6", ".", "6", ".", "1", "+", "3", "0", "1", "2", "8", ".", "7", "4">> }

\* Deserialize of the type of a non-optional field
deserialize_value(ty, v) ==
    CASE ty \in {"String", "PathBuf"} ->
             IF v.t = "str" THEN Ok(v.s) ELSE type_error(ty, v)
      [] ty = "bool" ->
             IF v.t = "bool" THEN Ok(v.b) ELSE type_error(ty, v)
      [] ty = "uppercase_bool" -> deserialize_uppercase_bool(v)
      [] ty = "FourPointVersion" ->
             IF v.t = "str" THEN visit_str(v.s) ELSE type_error(ty, v)
      [] ty \in {"Url", "DateTime", "Version"} ->
             IF v.t # "str"
             THEN type_error(ty, v)
             ELSE IF v.s \in WellFormed(ty) THEN Ok(v.s) ELSE Err("invalid value", v.s)

\* faulty variant: an empty string is taken for no value
Option_deserialize_empty_is_none(ty, v) ==
    IF v = Absent \/ v.t = "null" \/ v = JStr(<<>>)
    THEN Ok(NoBound)
    ELSE LET r == deserialize_value(ty, v)
         IN  IF r.ok THEN Ok(Some(r.val)) ELSE r

\* Deserialize of Option<T>, as a field of a derived struct: no key and null
\* give None, anything else is decoded as T
Option_deserialize(ty, v) ==
    IF v = Absent \/ v.t = "null"
    THEN Ok(NoBound)
    ELSE LET r == deserialize_value(ty, v)
         IN  IF r.ok THEN Ok(Some(r.val)) ELSE r

\* one field of a derived struct: its name, its camelCase key in the JSON
\* object, its type, and whether it is an Option of that type
Field(name, key, ty, opt) == [name |-> name, key |-> key, ty |-> ty, opt |-> opt]

InstallInfo_fields ==
    <<
       Field("instance_id", "instanceId", "String", FALSE),
       Field("install_date", "installDate", "DateTime", FALSE),
       Field("installation_name", "installationName", "String", FALSE),
       Field("installation_path", "installationPath", "PathBuf", FALSE),
       Field("installation_version", "installationVersion", "FourPointVersion", FALSE),
       Field("product_id", "productId", "String", FALSE),
       Field("product_path", "productPath", "PathBuf", FALSE),
       Field("is_prerelease", "isPrerelease", "bool", FALSE),
       Field("display_name", "displayName", "String", FALSE),
       Field("description", "description", "String", FALSE),
       Field("channel_id", "channelId", "String", FALSE),
       Field("channel_path", "channelPath", "PathBuf", TRUE),
       Field("channel_uri", "channelUri", "Url", FALSE),
       Field("engine_path", "enginePath", "PathBuf", FALSE),
       Field("release_notes", "releaseNotes", "Url", FALSE),
       Field("third_party_notices", "thirdPartyNotices", "Url", FALSE),
       Field("update_date", "updateDate", "DateTime", FALSE),
       Field("catalog", "catalog", "InstallCatalog", FALSE),
       Field("properties", "properties", "InstallProperties", FALSE)
    >>

InstallCatalog_fields ==
    <<
       Field("build_branch", "buildBranch", "String", FALSE),
       Field("build_version", "buildVersion", "FourPointVersion", FALSE),
       Field("id", "id", "String", FALSE),
       Field("local_build", "localBuild", "String", FALSE),
       Field("manifest_name", "manifestName", "String", FALSE),
       Field("manifest_type", "manifestType", "String", FALSE),
       Field("product_display_version", "productDisplayVersion", "String", FALSE),
       Field("product_line", "productLine", "String", FALSE),
       Field("product_line_version", "productLineVersion", "String", FALSE),
       Field("product_milestone", "productMilestone", "String", FALSE),
       Field("product_milestone_is_pre_release", "productMilestoneIsPreRelease", "uppercase_bool", FALSE),
       Field("product_name", "productName", "String", FALSE),
       Field("product_patch_version", "productPatchVersion", "String", FALSE),
       Field("product_pre_release_milestone_suffix", "productPreReleaseMilestoneSuffix", "String", FALSE),
       Field("product_release", "productRelease", "String", TRUE),
       Field("product_semantic_version", "productSemanticVersion", "Version", FALSE),
       Field("required_engine_version", "requiredEngineVersion", "FourPointVersion", FALSE)
    >>

InstallProperties_fields ==
    <<
       Field("campaign_id", "campaignId", "String", FALSE),
       Field("channel_manifest_id", "channelManifestId", "String", FALSE),
       Field("nickname", "nickname", "String", FALSE),
       Field("setup_engine_file_path", "setupEngineFilePath", "PathBuf", FALSE)
    >>

\* the end of a derived Deserialize: the struct is built from the decoded
\* fields when none failed (which failure is reported depends on the order of
\* the keys in the document: the error carries the fields that can be the one)
build_struct(fields, r) ==
    LET failed == { fields[i].name : i \in { j \in DOMAIN fields : ~r[j].ok } }
        at(n) == CHOOSE i \in DOMAIN fields : fields[i].name = n
    IN  IF failed # {}
        THEN Err("invalid struct", failed)
        ELSE Ok([n \in { fields[i].name : i \in DOMAIN fields } |-> r[at(n)].val])

\* the derived Deserialize of InstallCatalog and of InstallProperties: keys
\* that are no field are skipped, every field is decoded from its key
deserialize_struct(fields, v) ==
    IF v.t # "object"
    THEN type_error("struct", v)
    ELSE build_struct(fields,
             [i \in DOMAIN fields |->
                  IF fields[i].opt
                  THEN Option_deserialize(fields[i].ty, member(v, fields[i].key))
                  ELSE deserialize_value(fields[i].ty, member(v, fields[i].key))])

\* the derived Deserialize of InstallInfo, whose catalog and properties are
\* structs themselves
InstallInfo_deserialize(v) ==
    IF v.t # "object"
    THEN type_error("struct", v)
    ELSE build_struct(InstallInfo_fields,
             [i \in DOMAIN InstallInfo_fields |->
                  LET f == InstallInfo_fields[i]
                      x == member(v, f.key)
                  IN  CASE f.ty = "InstallCatalog" -> deserialize_struct(InstallCatalog_fields, x)
                        [] f.ty = "InstallProperties" ->
                               deserialize_struct(InstallProperties_fields, x)
                        [] f.opt -> Option_deserialize(f.ty, x)
                        [] OTHER -> deserialize_value(f.ty, x)])

\* serde_json::from_str::<Vec<InstallInfo>>
serde_json_from_str(doc) ==
    IF doc.t # "array"
    THEN type_error("Vec<InstallInfo>", doc)
    ELSE LET r == [i \in DOMAIN doc.items |-> InstallInfo_deserialize(doc.items[i])]
             failed == { i \in DOMAIN doc.items : ~r[i].ok }
         IN  IF failed # {}
             THEN Err("invalid element", failed)
             ELSE Ok([i \in DOMAIN doc.items |-> r[i].val])

\* the read accessors: what a call returns, [kind |-> "value"] with the
\* value, or that it panics
InstallInfo_get(self, name) ==
    CASE name = "instance_id" -> [kind |-> "value", value |-> self.instance_id]
      [] name = "install_date" -> [kind |-> "value", value |-> self.install_date]
      [] name = "installation_name" -> [kind |-> "value", value |-> self.installation_name]
      [] name = "installation_path" -> [kind |-> "value", value |-> self.installation_path]
      [] name = "installation_version" -> [kind |-> "value", value |-> self.installation_version]
      [] name = "product_id" -> [kind |-> "value", value |-> self.product_id]
      [] name = "product_path" -> [kind |-> "value", value |-> self.product_path]
      [] name = "is_prerelease" -> [kind |-> "value", value |-> self.is_prerelease]
      [] name = "display_name" -> [kind |-> "value", value |-> self.display_name]
      [] name = "description" -> [kind |-> "value", value |-> self.description]
      [] name = "channel_id" -> [kind |-> "value", value |-> self.channel_id]
      [] name = "channel_path" -> [kind |-> "value", value |-> self.channel_path]
      [] name = "channel_url" -> [kind |-> "value", value |-> self.channel_uri]
      [] name = "engine_path" -> [kind |-> "value", value |-> self.engine_path]
      [] name = "release_notes" -> [kind |-> "value", value |-> self.release_notes]
      [] name = "third_party_notices" -> [kind |-> "value", value |-> self.third_party_notices]
      [] name = "update_date" -> [kind |-> "value", value |-> self.update_date]
      [] name = "catalog" -> [kind |-> "value", value |-> self.catalog]
      [] name = "properties" -> [kind |-> "value", value |-> self.properties]

InstallCatalog_get(self, name) ==
    CASE name = "build_branch" -> [kind |-> "value", value |-> self.build_branch]
      [] name = "build_version" -> [kind |-> "value", value |-> self.build_version]
      [] name = "id" -> [kind |-> "value", value |-> self.id]
      [] name = "local_build" -> [kind |-> "value", value |-> self.local_build]
      [] name = "manifest_name" -> [kind |-> "value", value |-> self.manifest_name]
      [] name = "manifest_type" -> [kind |-> "value", value |-> self.manifest_type]
      [] name = "product_display_version" -> [kind |-> "value", value |-> self.product_display_version]
      [] name = "product_line" -> [kind |-> "value", value |-> self.product_line]
      [] name = "product_line_version" -> [kind |-> "value", value |-> self.product_line_version]
      [] name = "product_milestone" -> [kind |-> "value", value |-> self.product_milestone]
      [] name = "product_milestone_is_pre_release" -> [kind |-> "panic", msg |-> "not implemented"]
      [] name = "product_name" -> [kind |-> "value", value |-> self.product_name]
      [] name = "product_patch_version" -> [kind |-> "value", value |-> self.product_patch_version]
      [] name = "product_pre_release_milestone_suffix" -> [kind |-> "value", value |-> self.product_pre_release_milestone_suffix]
      [] name = "product_release" -> [kind |-> "value", value |-> self.product_release]
      [] name = "product_semantic_version" -> [kind |-> "value", value |-> self.product_semantic_version]
      [] name = "required_engine_version" -> [kind |-> "value", value |-> self.required_engine_version]

InstallProperties_get(self, name) ==
    CASE name = "campaign_id" -> [kind |-> "value", value |-> self.campaign_id]
      [] name = "channel_manifest_id" -> [kind |-> "value", value |-> self.channel_manifest_id]
      [] name = "nickname" -> [kind |-> "value", value |-> self.nickname]
      [] name = "setup_engine_file_path" -> [kind |-> "value", value |-> self.setup_engine_file_path]

\* the accessors of a struct are named after its fields, but for channel_url
accessors(fields) ==
    { IF fields[i].name = "channel_uri" THEN "channel_url" ELSE fields[i].name :
          i \in DOMAIN fields }

(***************************************************************************)
(* Decoding documents: the object of the crate's own sample, with the two  *)
(* boolean fields, the two optional fields and one required field varied.  *)
(***************************************************************************)
\* the sample has neither channelPath nor productRelease, and keys that are no field
SampleInfo ==
    JObject([ instanceId |-> JStr(<<"a", "5", "5">>),
              installDate |-> JStr(<<"2", "0", "1", "9", "-", "1", "1", "-", "2", "4", "T", "1", "8", ":", "4", "3", ":", "5", "2", "Z">>),
              installationName |-> JStr(<<"V", "i", "s", "u", "a", "l", "S", "t", "u", "d", "i", "o", "/", "1", "6", ".", "6", ".", "1">>),
              installationPath |-> JStr(<<"C", ":", "/", "V", "S">>),
              installationVersion |-> JStr(<<"1", "6", ".", "6", ".", "3", "0", "1", "2", "8", ".", "7", "4">>),
              productId |-> JStr(<<"C", "o", "m", "m", "u", "n", "i", "t", "y">>),
              productPath |-> JStr(<<"C", ":", "/", "V", "S">>),
              isPrerelease |-> JBool(FALSE),
              displayName |-> JStr(<<"V", "i", "s", "u", "a", "l", " ", "S", "t", "u", "d", "i", "o">>),
              description |-> JStr(<<"I", "D", "E">>),
              channelId |-> JStr(<<"a", "5", "5">>),
              channelUri |-> JStr(<<"h", "t", "t", "p", "s", ":", "/", "/", "a", "k", "a", ".", "m", "s", "/", "v", "s">>),
              enginePath |-> JStr(<<"C", ":", "/", "V", "S">>),
              releaseNotes |-> JStr(<<"h", "t", "t", "p", "s", ":", "/", "/", "g", "o", ".", "m", "s", "/", "f", "?", "L", "=", "6", "#", "1">>),
              thirdPartyNotices |-> JStr(<<"h", "t", "t", "p", "s", ":", "/", "/", "a", "k", "a", ".", "m", "s", "/", "v", "s">>),
              updateDate |-> JStr(<<"2", "0", "1", "9", "-", "1", "1", "-", "2", "4", "T", "1", "8", ":", "4", "3", ":", "5", "2", "Z">>),
              catalog |->
                  JObject([ buildBranch |-> JStr(<<"a", "5", "5">>),
                            buildVersion |-> JStr(<<"1", "6", ".", "6", ".", "3", "0", "1", "2", "8", ".", "7", "4">>),
                            id |-> JStr(<<"a", "5", "5">>),
                            localBuild |-> JStr(<<"a", "5", "5">>),
                            manifestName |-> JStr(<<"a", "5", "5">>),
                            manifestType |-> JStr(<<"a", "5", "5">>),
                            productDisplayVersion |-> JStr(<<"a", "5", "5">>),
                            productLine |-> JStr(<<"a", "5", "5">>),
                            productLineVersion |-> JStr(<<"a", "5", "5">>),
                            productMilestone |-> JStr(<<"R", "T", "W">>),
                            productMilestoneIsPreRelease |-> JStr(<<"F", "a", "l", "s", "e">>),
                            productName |-> JStr(<<"a", "5", "5">>),
                            productPatchVersion |-> JStr(<<"a", "5", "5">>),
                            productPreReleaseMilestoneSuffix |-> JStr(<<"a", "5", "5">>),
                            productSemanticVersion |-> JStr(<<"1", "6", ".", "6", ".", "1", "+", "3", "0", "1", "2", "8", ".", "7", "4">>),
                            requiredEngineVersion |-> JStr(<<"2", ".", "6", ".", "2", "1", "0", "9", ".", "5", "5", "7", "5", "6">>) ]),
              properties |->
                  JObject([ campaignId |-> JStr(<<>>),
                            channelManifestId |-> JStr(<<"a", "5", "5">>),
                            nickname |-> JStr(<<>>),
                            setupEngineFilePath |-> JStr(<<"C", ":", "/", "V", "S">>) ]),
              isComplete |-> JBool(TRUE),
              isLaunchable |-> JBool(TRUE) ])

\* the object with one key set to a value, or taken out
vary(obj, key, v) ==
    JObject(IF v = Absent
            THEN [k \in DOMAIN obj.m \ {key} |-> obj.m[k]]
            ELSE [k \in DOMAIN obj.m \cup {key} |-> IF k = key THEN v ELSE obj.m[k]])

BoolInputs ==
    { JBool(TRUE), JBool(FALSE),
      JStr(<<"F", "a", "l", "s", "e">>), JStr(<<" ", "T", "R", "U", "E", "\n">>), JStr(<<"t", "r", "u", "e">>),
      JStr(<<"y", "e", "s">>), JStr(<<>>), JNull, Absent }

\* what an optional or a required text field is given
TextInputs(t) == { Absent, JNull, JStr(<<>>), JStr(t) }

InitDecode ==
    /\ \E p \in BoolInputs, m \in BoolInputs, cp \in TextInputs(<<"C", ":", "/", "c", "h">>),
          pr \in TextInputs(<<"1", "6">>), id \in TextInputs(<<"a", "5", "5">>) :
           LET catalog == vary(vary(SampleInfo.m.catalog, "productMilestoneIsPreRelease", m),
                               "productRelease", pr)
               info == vary(vary(vary(vary(SampleInfo, "isPrerelease", p),
                                  "channelPath", cp), "instanceId", id),
                            "catalog", catalog)
           IN  json = JArray(<<info>>)
    /\ decoded = None
    /\ got = [kind |-> "none"]
    /\ dpc = "ready"
    /\ text = <<>>
    /\ sel = [kind |-> "none"]
    /\ cmd = <<>>
    /\ spc = "idle"
    /\ lastArg = <<>>
    /\ ret = [kind |-> "none"]
    /\ segs = <<>>
    /\ input = <<>>
    /\ parsed = None
    /\ formatted = <<>>
    /\ reparsed = None
    /\ vpc = "idle"
    /\ cfg = [kind |-> "none"]
    /\ rpc = "idle"
    /\ trace = <<>>
    /\ result = [kind |-> "none"]
    /\ mem = <<>>

\* serde_json::from_str(json)
Decode ==
    /\ dpc = "ready"
    /\ decoded' = serde_json_from_str(json)
    /\ dpc' = "decoded"
    /\ UNCHANGED <<json, got>>
    /\ UNCHANGED <<versionVars, selectionVars, runVars, bufferVars>>

\* a call of an accessor of a decoded InstallInfo
InstallInfo_access ==
    /\ dpc = "decoded" /\ decoded.ok
    /\ \E i \in DOMAIN decoded.val, name \in accessors(InstallInfo_fields) :
           got' = [on |-> "InstallInfo", name |-> name,
                   outcome |-> InstallInfo_get(decoded.val[i], name)]
    /\ UNCHANGED <<json, decoded, dpc>>
    /\ UNCHANGED <<versionVars, selectionVars, runVars, bufferVars>>

\* a call of an accessor of info.catalog(); a panic ends the program
InstallCatalog_access ==
    /\ dpc = "decoded" /\ decoded.ok
    /\ \E i \in DOMAIN decoded.val, name \in accessors(InstallCatalog_fields) :
           LET catalog == InstallInfo_get(decoded.val[i], "catalog").value
               outcome == InstallCatalog_get(catalog, name)
           IN  /\ got' = [on |-> "InstallCatalog", name |-> name, outcome |-> outcome]
               /\ dpc' = IF outcome.kind = "panic" THEN "panicked" ELSE dpc
    /\ UNCHANGED <<json, decoded>>
    /\ UNCHANGED <<versionVars, selectionVars, runVars, bufferVars>>

\* a call of an accessor of info.properties()
InstallProperties_access ==
    /\ dpc = "decoded" /\ decoded.ok
    /\ \E i \in DOMAIN decoded.val, name \in accessors(InstallProperties_fields) :
           LET properties == InstallInfo_get(decoded.val[i], "properties").value
           IN  got' = [on |-> "InstallProperties", name |-> name,
                       outcome |-> InstallProperties_get(properties, name)]
    /\ UNCHANGED <<json, decoded, dpc>>
    /\ UNCHANGED <<versionVars, selectionVars, runVars, bufferVars>>

NextDecode ==
    \/ Decode
    \/ InstallInfo_access
    \/ InstallCatalog_access
    \/ InstallProperties_access

SpecDecode == InitDecode /\ [][NextDecode]_vars

(***************************************************************************)
(* Properties                                                              *)
(***************************************************************************)
ExpectedValid(ss) == Len(ss) \in 1..4 /\ \A i \in 1..Len(ss) : ss[i].valid

ExpectedField(ss, i) == IF i <= Len(ss) THEN ss[i].val ELSE 0

ExpectedVersion(ss) ==
    [major |-> ExpectedField(ss, 1), minor |-> ExpectedField(ss, 2),
     revision |-> ExpectedField(ss, 3), build |-> ExpectedField(ss, 4)]

NamedRejects ==
    { <<>>,
      <<"1", ".", "2", ".", "3", ".", "4", ".", "5">>,
      <<"1", ".", "a">>,
      <<"-", "1", ".", "0", ".", "0", ".", "0">>,
      <<"6", "5", "5", "3", "6", ".", "0", ".", "0", ".", "0">> }

VersionParsed == vpc \in {"parsed", "formatted", "reparsed"}

\* C1: parsing a string splits it on '.', and succeeds exactly when there are
\* one to four segments and each is a u16 in decimal; the result then has the
\* segments as its leading fields and 0 for the absent trailing ones.  Every
\* other string is an error: "", "1.2.3.4.5", "1.a", "-1.0.0.0" and
\* "65536.0.0.0" are rejected, and an invalid segment is never read as 0.
C1_VersionParse ==
    VersionParsed =>
        /\ parsed.ok <=> ExpectedValid(segs)
        /\ parsed.ok => parsed.val = ExpectedVersion(segs)
        /\ input \in NamedRejects => ~parsed.ok

C1_Witness ==
    /\ vpc = "parsed"
    /\ input = <<"1", "6", ".", "0">>
    /\ parsed.ok
    /\ parsed.val = [major |-> 16, minor |-> 0, revision |-> 0, build |-> 0]

ExpectedCanon(ss, i) == IF i <= Len(ss) THEN ss[i].canon ELSE <<"0">>

ExpectedFormatted(ss) ==
    ExpectedCanon(ss, 1) \o <<".">> \o ExpectedCanon(ss, 2) \o <<".">>
        \o ExpectedCanon(ss, 3) \o <<".">> \o ExpectedCanon(ss, 4)

DotCount(s) == Cardinality({ i \in 1..Len(s) : s[i] = "." })

\* C2: for a valid string of one to four segments, parse then format gives
\* the canonical text "{major}.{minor}.{revision}.{build}", always with four
\* segments ("16.0" gives "16.0.0.0"), and parsing the canonical text gives
\* the same version value again.
C2_RoundTrip ==
    /\ vpc \in {"formatted", "reparsed"} =>
           /\ ExpectedValid(segs)
           /\ formatted = ExpectedFormatted(segs)
           /\ DotCount(formatted) = 3
    /\ vpc = "reparsed" => reparsed.ok /\ reparsed.val = parsed.val

C2_Witness ==
    /\ vpc = "reparsed"
    /\ input = <<"1", "6", ".", "0">>
    /\ formatted = <<"1", "6", ".", "0", ".", "0", ".", "0">>
    /\ reparsed.ok
    /\ reparsed.val = [major |-> 16, minor |-> 0, revision |-> 0, build |-> 0]

Text15 == <<"1", "5", ".", "0", ".", "0", ".", "0">>

Text16 == <<"1", "6", ".", "6", ".", "3", "0", "1", "2", "8", ".", "7", "4">>

TextMax ==
    <<"6", "5", "5", "3", "5", ".", "6", "5", "5", "3", "5", ".",
      "6", "5", "5", "3", "5", ".", "6", "5", "5", "3", "5">>

ExpectedVersionText(v) ==
    CASE v = V15 -> Text15
      [] v = V16 -> Text16
      [] v = VMax -> TextMax

ExpectedRangeToken(r) ==
    CASE r.lower.some /\ r.upper.some ->
            ExpectedVersionText(r.lower.v) \o <<",">> \o ExpectedVersionText(r.upper.v)
      [] r.lower.some /\ ~r.upper.some -> ExpectedVersionText(r.lower.v) \o <<",">>
      [] ~r.lower.some /\ r.upper.some -> <<",">> \o ExpectedVersionText(r.upper.v)

Unbounded(r) == ~r.lower.some /\ ~r.upper.some

ExpectedRangeGroup(r) ==
    IF Unbounded(r) THEN <<>> ELSE <<T_version, ExpectedRangeToken(r)>>

\* the tokens of every encoder but the version range
OtherGroupTokens ==
    {T_all, T_prerelease, T_products, T_requires, T_requiresAny, T_legacy}
        \cup ProductIds \cup ComponentIds

\* C3: a version range appends no token at all iff both bounds are absent;
\* otherwise its compound token is "{lower},{upper}", "{lower}," or
\* ",{upper}" according to the bounds present (lower 15.0.0.0 alone gives
\* "15.0.0.0,").
C3_VersionRangeEncoding ==
    (spc = "encoded" /\ sel.kind \in {"Modern", "Legacy"}) =>
        LET r == sel.version
            n == Len(cmd)
            fromRange == { i \in 1..n : cmd[i] \notin OtherGroupTokens }
        IN  /\ (fromRange = {}) <=> Unbounded(r)
            /\ ~Unbounded(r) =>
                   /\ fromRange = {n - 1, n}
                   /\ cmd[n - 1] = T_version
                   /\ cmd[n] = ExpectedRangeToken(r)

C3_Witness ==
    /\ spc = "encoded"
    /\ sel.kind = "Modern"
    /\ sel.version = [lower |-> Some(V15), upper |-> NoBound]
    /\ cmd[Len(cmd)] = <<"1", "5", ".", "0", ".", "0", ".", "0", ",">>

\* C4: for a Modern selection an empty product allowlist gives neither the
\* "-products" marker nor any product token, ["*"] gives the marker followed
\* by the single token "*", and any non-empty list gives the marker followed
\* at once by its elements, each a token, in their order.
C4_ProductAllowlist ==
    (spc = "encoded" /\ sel.kind = "Modern") =>
        LET ps == sel.products
            markers == { i \in 1..Len(cmd) : cmd[i] = T_products }
            products == { i \in 1..Len(cmd) : cmd[i] \in ProductIds }
        IN  /\ ps = <<>> => markers = {} /\ products = {}
            /\ ps # <<>> =>
                   \E m \in 1..Len(cmd) :
                       /\ markers = {m}
                       /\ products = (m + 1)..(m + Len(ps))
                       /\ SubSeq(cmd, m + 1, m + Len(ps)) = ps

C4_Witness ==
    /\ spc = "encoded"
    /\ sel.kind = "Modern"
    /\ sel.products = <<Wildcard>>
    /\ sel.all
    /\ cmd = <<T_all, T_products, Wildcard>>

ExpectedFlag(b, token) == IF b THEN <<token>> ELSE <<>>

ExpectedList(marker, list) == IF list = <<>> THEN <<>> ELSE <<marker>> \o list

\* C5: a Modern selection emits its groups in the order include_incomplete,
\* include_prerelease, product allowlist, component allowlist,
\* require_any_component, version range.
C5_DeclaredOrder ==
    (spc = "encoded" /\ sel.kind = "Modern") =>
        cmd = ExpectedFlag(sel.all, T_all)
                \o ExpectedFlag(sel.prerelease, T_prerelease)
                \o ExpectedList(T_products, sel.products)
                \o ExpectedList(T_requires, sel.requires)
                \o ExpectedFlag(sel.requires_any, T_requiresAny)
                \o ExpectedRangeGroup(sel.version)

\* C6: a Legacy selection always emits "-legacy" first, then "-all" iff
\* include_incomplete, "-prerelease" iff include_prerelease, and the version
\* range tokens iff a bound is present; no product, component or requiresAny
\* token is ever emitted.
C6_LegacyEncoding ==
    (spc = "encoded" /\ sel.kind = "Legacy") =>
        cmd = <<T_legacy>>
                \o ExpectedFlag(sel.all, T_all)
                \o ExpectedFlag(sel.prerelease, T_prerelease)
                \o ExpectedRangeGroup(sel.version)

C6_Witness ==
    /\ spc = "encoded"
    /\ sel = Legacy_new
    /\ cmd = <<T_legacy>>

\* C7: a path selection appends exactly two tokens, "-path" and the path
\* itself unchanged, and nothing else.
C7_PathOverride ==
    (spc = "encoded" /\ sel.kind = "Path") => cmd = <<T_path, sel.path>>

C7_Witness ==
    /\ spc = "encoded"
    /\ sel.kind = "Path"
    /\ Len(cmd) = 2
    /\ cmd[2] = <<"D", ":", "\\", "v", "s", " ", "2", "0", "1", "9">>

\* C8: the argv of every invocation ends with the three tokens "-utf8",
\* "-format", "json", in that order.
C8_FixedTrailingTokens ==
    \A i \in 1..Len(trace) :
        trace[i].op = "spawn" =>
            LET a == trace[i].argv
            IN  /\ Len(a) >= 3
                /\ SubSeq(a, Len(a) - 2, Len(a)) = <<T_utf8, T_format, T_json>>

Failed(ev) == ~ev.outcome.ok

FailedNotFound(ev) == ~ev.outcome.ok /\ ev.outcome.error.kind = "NotFound"

DefaultRun == trace # <<>> /\ trace[1].op = "get_known_folder_path"

\* C9: the default-path run tries its candidates in the declared order and
\* stops at the first invocation that succeeds: the second candidate is only
\* touched after the first one's invocation failed with not-found, nothing is
\* resolved or spawned after a spawn that succeeded, no candidate is resolved
\* or spawned twice, and a returned list of records is the decoded output of
\* the candidate spawned last.
C9_OrderedFirstSuccess ==
    DefaultRun =>
        /\ \A i \in 1..Len(trace) :
               trace[i].id = "ProgramFilesX86" =>
                   \E j \in 1..(i - 1) :
                       /\ trace[j].op = "spawn"
                       /\ trace[j].id = "ProgramData"
                       /\ FailedNotFound(trace[j])
        /\ \A i \in 1..Len(trace) :
               (trace[i].op = "spawn" /\ trace[i].outcome.ok) =>
                   i = Len(trace) /\ rpc = "done"
        /\ \A i, j \in 1..Len(trace) :
               (trace[i].op = trace[j].op /\ trace[i].id = trace[j].id) => i = j
        /\ result.kind = "Ok" =>
               LET last == trace[Len(trace)]
               IN  /\ last.op = "spawn"
                   /\ last.outcome.ok
                   /\ last.outcome.stdout.by = last.id
                   /\ result.records = [decoded_from |-> last.outcome.stdout]

C9_Witness ==
    /\ rpc = "done"
    /\ Len(trace) = 4
    /\ trace[2].op = "spawn" /\ trace[2].id = "ProgramData" /\ FailedNotFound(trace[2])
    /\ trace[4].op = "spawn" /\ trace[4].id = "ProgramFilesX86" /\ trace[4].outcome.ok
    /\ result.kind = "Ok"
    /\ result.records.decoded_from.by = "ProgramFilesX86"

\* C10: a failure of a known-folder lookup or of a spawn that is not a
\* not-found failure ends the run at once: the caller gets that very error,
\* and nothing is resolved or spawned after it.
C10_OtherFailuresSurface ==
    \A i \in 1..Len(trace) :
        (Failed(trace[i]) /\ ~FailedNotFound(trace[i])) =>
            /\ i = Len(trace)
            /\ rpc = "done"
            /\ result = [kind |-> "Err", error |-> trace[i].outcome.error]

C10_Witness ==
    /\ rpc = "done"
    /\ Len(trace) = 2
    /\ trace[2].op = "spawn"
    /\ Failed(trace[2])
    /\ trace[2].outcome.error.kind = "PermissionDenied"
    /\ result.kind = "Err"
    /\ result.error = io_Error("PermissionDenied", "spawn", "ProgramData")

Attempted(id) == \E i \in 1..Len(trace) : trace[i].id = id

NotFoundAt(id) == \E i \in 1..Len(trace) : trace[i].id = id /\ FailedNotFound(trace[i])

\* C11: a not-found failure of a candidate, at its lookup or at its spawn,
\* falls through to the next candidate while one remains, and the run ends
\* with the not-found error iff every candidate was attempted and each failed
\* with not-found.
C11_NotFoundFallsThrough ==
    (DefaultRun /\ rpc = "done") =>
        /\ NotFoundAt("ProgramData") => Attempted("ProgramFilesX86")
        /\ (result.kind = "Err" /\ result.error.kind = "NotFound")
               <=> (NotFoundAt("ProgramData") /\ NotFoundAt("ProgramFilesX86"))

ChildRan(ev) == ev.op = "spawn" /\ ev.outcome.ok

\* C12: when the tool exits with a non-zero code c the run returns the error
\* value NonZeroExit{c} to its caller; it does not abort.
C12_NonZeroExitReturned ==
    \A i \in 1..Len(trace) :
        (ChildRan(trace[i]) /\ trace[i].outcome.status # 0) =>
            result = [kind |-> "Err",
                      error |-> [kind |-> "NonZeroExit", code |-> trace[i].outcome.status]]

\* C13: when the tool exits with code 0 and its stdout is not valid UTF-8 or
\* does not decode as a JSON array of records, the run returns the error
\* value MalformedOutput to its caller, with no records; it does not abort.
C13_MalformedOutputReturned ==
    \A i \in 1..Len(trace) :
        (ChildRan(trace[i]) /\ trace[i].outcome.status = 0
             /\ trace[i].outcome.stdout.body # "json_array") =>
            /\ result.kind = "Err"
            /\ result.error.kind = "MalformedOutput"

\* C16: the compound token of every range of u16 versions fits the buffer
\* (the worst case, both bounds 65535.65535.65535.65535, fills it exactly),
\* the token passed on is the whole text, and a text longer than the buffer
\* makes the encoder fail instead of passing on a cut-off token.
C16_BufferCapacity ==
    /\ sel.kind = "Range" => Len(text) <= 47 /\ spc # "panicked"
    /\ (sel.kind = "Range" /\ spc = "encoded") => cmd = ExpectedRangeGroup(sel.version)
    /\ (sel.kind \in {"Range", "Text"} /\ spc = "encoded") =>
           /\ Len(text) <= 47
           /\ cmd = IF text = <<>> THEN <<>> ELSE <<T_version, text>>
    /\ (sel.kind \in {"Range", "Text"} /\ spc = "panicked") => Len(text) > 47 /\ cmd = <<>>

C16_Witness ==
    /\ spc = "encoded"
    /\ sel.kind = "Range"
    /\ sel.version = [lower |-> Some(VMax), upper |-> Some(VMax)]
    /\ Len(text) = 47
    /\ cmd = <<T_version, TextMax \o <<",">> \o TextMax>>

DefaultOf(setter) ==
    CASE setter \in {"all", "prerelease", "requires_any"} -> FALSE
      [] setter \in {"products", "requires"} -> <<>>
      [] setter = "version" -> [lower |-> [some |-> FALSE], upper |-> [some |-> FALSE]]

ExpectedSetters ==
    CASE sel.kind = "Modern" -> {"all", "prerelease", "products", "requires", "requires_any", "version"}
      [] sel.kind = "Legacy" -> {"all", "prerelease", "version"}

NeverSet == \A s \in DOMAIN lastArg : ~lastArg[s].set

\* C17: a new Modern or Legacy selection has every field at its default and
\* encodes no constraint token; after any sequence of setter calls each field
\* holds the argument of the last call of its own setter, or its default when
\* that setter was never called (so a setter leaves the other fields alone),
\* and the instance a setter returns is the one it was called on.
C17_SetterFrame ==
    (spc \in {"building", "encoded"} /\ sel.kind \in {"Modern", "Legacy"}) =>
        /\ DOMAIN lastArg = ExpectedSetters
        /\ \A s \in ExpectedSetters :
               sel[s] = IF lastArg[s].set THEN lastArg[s].arg ELSE DefaultOf(s)
        /\ ret.kind # "none" => ret = sel
        /\ (spc = "encoded" /\ NeverSet) =>
               cmd = IF sel.kind = "Modern" THEN <<>> ELSE <<T_legacy>>

C17_Witness ==
    /\ spc = "building"
    /\ sel.kind = "Modern"
    /\ lastArg.all.set /\ lastArg.all.arg = FALSE
    /\ lastArg.products.set /\ sel.products = <<Wildcard>>
    /\ lastArg.requires_any.set /\ sel.requires_any
    /\ ~lastArg.prerelease.set /\ ~lastArg.version.set
    /\ ret = sel

Positions(op, buf) == { i \in 1..Len(mem) : mem[i] = [op |-> op, buf |-> buf] }

HandedOut == { mem[i].buf : i \in { j \in 1..Len(mem) : mem[j].op = "alloc" } }

Lookups == { i \in 1..Len(trace) : trace[i].op = "get_known_folder_path" }

\* C18: in every state between the steps of a run, each buffer the
\* known-folder lookup handed out has been released exactly once, after it was
\* handed out and after every read of it; only handed-out buffers (or the null
\* pointer, which releases nothing) are released or read; and a lookup that
\* handed out a buffer shows up in the log, whether it succeeded or failed.
C18_BufferReleasedOnce ==
    /\ \A b \in HandedOut :
           /\ Cardinality(Positions("alloc", b)) = 1
           /\ Cardinality(Positions("free", b)) = 1
           /\ \A a \in Positions("alloc", b), f \in Positions("free", b) :
                  /\ a < f
                  /\ \A r \in Positions("read", b) : a < r /\ r < f
    /\ \A i \in 1..Len(mem) :
           mem[i].op \in {"read", "free"} =>
               \/ mem[i].buf \in HandedOut
               \/ mem[i].op = "free" /\ mem[i].buf = "null"
    /\ HandedOut = { trace[i].id : i \in { j \in Lookups : trace[j].outcome.buffer } }
    /\ \A i \in Lookups : trace[i].outcome.ok => Positions("read", trace[i].id) # {}

C18_Witness ==
    /\ rpc = "done"
    /\ result.kind = "Err"
    /\ mem = << [op |-> "alloc", buf |-> "ProgramData"],
                [op |-> "read", buf |-> "ProgramData"],
                [op |-> "free", buf |-> "ProgramData"],
                [op |-> "alloc", buf |-> "ProgramFilesX86"],
                [op |-> "free", buf |-> "ProgramFilesX86"] >>

Doc == json.items[1]

InInfo(key) == IF key \in DOMAIN Doc.m THEN Doc.m[key] ELSE [t |-> "absent"]

InCatalog(key) ==
    IF key \in DOMAIN Doc.m.catalog.m THEN Doc.m.catalog.m[key] ELSE [t |-> "absent"]

Decoded == dpc \in {"decoded", "panicked"}

ExpectedBoolean(v) ==
    CASE v \in { [t |-> "bool", b |-> TRUE],
                 [t |-> "str", s |-> <<"t", "r", "u", "e">>],
                 [t |-> "str", s |-> <<" ", "T", "R", "U", "E", "\n">>] } -> "true"
      [] v \in { [t |-> "bool", b |-> FALSE],
                 [t |-> "str", s |-> <<"F", "a", "l", "s", "e">>] } -> "false"
      [] OTHER -> "malformed"

\* C14: each of the two boolean fields, isPrerelease and the catalog's
\* productMilestoneIsPreRelease, decodes a string that is "true" or "false"
\* up to case and surrounding whitespace, and a native boolean, to that
\* value; any other value of either field makes the decode fail.
C14_StringBooleans ==
    Decoded =>
        LET p == ExpectedBoolean(InInfo("isPrerelease"))
            m == ExpectedBoolean(InCatalog("productMilestoneIsPreRelease"))
        IN  /\ "malformed" \in {p, m} => ~decoded.ok
            /\ ("malformed" \notin {p, m} /\ InInfo("instanceId").t = "str") =>
                   /\ decoded.ok
                   /\ decoded.val[1].is_prerelease = (p = "true")
                   /\ decoded.val[1].catalog.product_milestone_is_pre_release = (m = "true")

ExpectedOption(v) ==
    CASE v \in { [t |-> "absent"], [t |-> "null"] } -> [some |-> FALSE]
      [] v.t = "str" -> [some |-> TRUE, v |-> v.s]

RequiredPresent ==
    /\ InInfo("instanceId").t = "str"
    /\ InInfo("isPrerelease").t = "bool"
    /\ InCatalog("productMilestoneIsPreRelease") \in
           { [t |-> "str", s |-> <<"t", "r", "u", "e">>],
             [t |-> "str", s |-> <<" ", "T", "R", "U", "E", "\n">>],
             [t |-> "str", s |-> <<"F", "a", "l", "s", "e">>] }

\* C15: channelPath and the catalog's productRelease decode to the absent
\* state when the key is missing or null and to a present value, the empty
\* string included, otherwise, and never make the decode fail; their
\* accessors return that same state; a document in which a non-optional field
\* (instanceId, isPrerelease, productMilestoneIsPreRelease) is missing does
\* not decode.
C15_OptionalFields ==
    Decoded =>
        /\ RequiredPresent => decoded.ok
        /\ decoded.ok =>
               /\ decoded.val[1].channel_path = ExpectedOption(InInfo("channelPath"))
               /\ decoded.val[1].catalog.product_release
                      = ExpectedOption(InCatalog("productRelease"))
        /\ (got # [kind |-> "none"] /\ got.name = "channel_path") =>
               got.outcome = [kind |-> "value", value |-> ExpectedOption(InInfo("channelPath"))]
        /\ (got # [kind |-> "none"] /\ got.name = "product_release") =>
               got.outcome
                   = [kind |-> "value", value |-> ExpectedOption(InCatalog("productRelease"))]
        /\ [t |-> "absent"] \in { InInfo("instanceId"), InInfo("isPrerelease"),
                              InCatalog("productMilestoneIsPreRelease") }
               => ~decoded.ok

C15_Witness ==
    /\ dpc = "decoded"
    /\ decoded.ok
    /\ InInfo("channelPath") = [t |-> "null"]
    /\ InCatalog("productRelease") = [t |-> "str", s |-> <<>>]
    /\ decoded.val[1].channel_path = [some |-> FALSE]
    /\ decoded.val[1].catalog.product_release = [some |-> TRUE, v |-> <<>>]
    /\ got # [kind |-> "none"] /\ got.name = "product_release"

ExpectedFieldOf(name) == IF name = "channel_url" THEN "channel_uri" ELSE name

\* C19: every call of a read accessor of a decoded InstallInfo, of its
\* catalog or of its properties returns the value of the field the accessor
\* is named after (channel_url: channel_uri), and none fails.
C19_AccessorsTotal ==
    (Decoded /\ got # [kind |-> "none"]) =>
        LET self == CASE got.on = "InstallInfo" -> decoded.val[1]
                      [] got.on = "InstallCatalog" -> decoded.val[1].catalog
                      [] got.on = "InstallProperties" -> decoded.val[1].properties
        IN  got.outcome = [kind |-> "value", value |-> self[ExpectedFieldOf(got.name)]]

====
